---- MODULE Spec2Model ----
(***************************************************************************)
(* Model of iobench's read benchmark (src/src/main.rs): read_tree lists    *)
(* the files, runs read_file over all of them on a rayon pool              *)
(* (par_iter().map(read_file).reduce(default, combine)) and prints the     *)
(* report.  do_read_file is modelled one system call per step (open,       *)
(* metadata, read), the parallel iterator as rayon's adaptive splitter     *)
(* with per-worker deques and stealing.                                    *)
(***************************************************************************)
EXTENDS Integers, Sequences, FiniteSets, TLC

\* ---- bounds of the model ----
MaxFiles == 3
MaxThreads == 2
\* number of anomalies in one run (a file changes size, a system call fails,
\* a read returns fewer bytes than available): with many entries, and when
\* one file's read loop is explored in depth
MaxPoolEvents == 1
MaxFileEvents == 2
\* number of entries in the runs that explore one file's read loop in depth
MaxSoloFiles == 2

\* main.rs:152
BUF_SIZE == 65536

\* File lengths on disk at listing time, and lengths a file may drift to.
Lens == {0, 100, 1000}
DriftLens == {500, 2000, 70000}
\* Lengths a file may drift to in the runs with many entries.
PoolLens == {0, 100}
\* Byte count of a short read (read(2) may return fewer bytes than asked).
ShortLen == 600

VARIABLES
    threads,    \* the -j option
    all_files,  \* the listed entries, in order
    disk,       \* current length of every file on disk
    lens,       \* the lengths a file of this tree may take
    listed,     \* length of every file when it was listed (history)
    budget,     \* number of anomalies (size change, failed call, short read) left
    phase,      \* "listed", "read", "done"
    jobs,       \* rayon jobs of the reduction, keyed by range <<lo, hi>>
    deque,      \* per-worker job deque (push/pop at the back, steal at the front)
    wk,         \* per-worker position in the leaf fold and in do_read_file
    log,        \* per-entry history: who read it, what the calls returned
    all_stats,  \* result of the reduction
    report      \* the figures printed in the "-- read:" line

vars == <<threads, all_files, disk, lens, listed, budget, phase, jobs,
          deque, wk, log, all_stats, report>>

Workers == 1..threads
Entries == 1..Len(all_files)
Max(a, b) == IF a >= b THEN a ELSE b
Min(a, b) == IF a <= b THEN a ELSE b

\* ---- ReadFilesStats ----
Default == [bytes |-> 0, file_count |-> 0]

combine_dropcount(self, other) ==
    [bytes |-> self.bytes + other.bytes, file_count |-> self.file_count]

combine(self, other) ==
    [bytes |-> self.bytes + other.bytes,
     file_count |-> self.file_count + other.file_count]

\* ---- do_read_file, piece by piece ----
\* File::open(&path)? followed by stats.file_count += 1
do_open_countfirst(stats, ok) ==
    [stats EXCEPT !.file_count = @ + 1]

do_open(stats, ok) ==
    IF ok THEN [stats EXCEPT !.file_count = @ + 1] ELSE stats

\* the test at end of stream: the "truncated" diagnostic
truncated_never(bytes, size) == FALSE

truncated(bytes, size) == bytes # size

\* the test after every chunk: the "extended" diagnostic and break
extended_never(bytes, size) == FALSE

extended_late(bytes, size) == bytes > size + BUF_SIZE

extended(bytes, size) == bytes > size

\* read_file: the stats are returned whether do_read_file failed or not
read_file_propagate(ok, stats) == IF ok THEN stats ELSE Default

read_file(ok, stats) == stats

\* the diagnostic read_file emits
read_file_diag(ok, d) == IF ok THEN d ELSE "err"

\* ---- the operating system ----
\* what a read at offset pos of a file of length len can return
ReadResults(len, pos, canShort) ==
    IF pos >= len THEN {0}
    ELSE LET avail == Min(BUF_SIZE, len - pos)
         IN {avail} \cup (IF canShort /\ ShortLen < avail THEN {ShortLen} ELSE {})

\* ---- rayon: splitter and bridge helper ----
Splitter_try_split(splits, stolen) ==
    IF stolen THEN [ok |-> TRUE, splits |-> Max(threads, splits \div 2)]
    ELSE IF splits > 0 THEN [ok |-> TRUE, splits |-> splits \div 2]
    ELSE [ok |-> FALSE, splits |-> splits]

split_at_drop(lo, hi, mid) == <<<<lo, lo + mid>>, <<lo + mid + 1, hi>>>>

split_at(lo, hi, mid) == <<<<lo, lo + mid>>, <<lo + mid, hi>>>>

\* helper(len, migrated, splitter, producer, consumer): split while the
\* splitter allows, push the right half, go on inline with the left half.
RECURSIVE helper(_, _, _, _)
helper(lo, hi, splits, migrated) ==
    LET len == hi - lo
        s == Splitter_try_split(splits, migrated)
    IN IF len \div 2 >= 1 /\ s.ok
       THEN LET halves == split_at(lo, hi, len \div 2)
                l == halves[1]
                r == halves[2]
                rest == helper(l[1], l[2], s.splits, FALSE)
            IN [leaf |-> rest.leaf,
                joins |-> {<<lo, hi>>} \cup rest.joins,
                pushed |-> <<[key |-> r, splits |-> s.splits]>> \o rest.pushed]
       ELSE [leaf |-> <<lo, hi>>, joins |-> {}, pushed |-> <<>>]

Children(k) == split_at(k[1], k[2], (k[2] - k[1]) \div 2)

\* ---- state shapes ----
IdleWorker == [pc |-> "idle", job |-> <<0, 0>>, idx |-> 0, acc |-> Default,
               stats |-> Default, size |-> 0]

NoLog == [by |-> 0, reads |-> 0, opened |-> FALSE, size |-> -1, got |-> 0,
          last |-> 0, end |-> "", diag |-> "none", stats |-> Default]

\* split: the job was split in two and waits for (or has reduced) its halves
Job(st, splits, res, split) ==
    [st |-> st, splits |-> splits, res |-> res, split |-> split]

Root == <<0, Len(all_files)>>

\* the state after the listing phase (main.rs:70-93): one of the given trees
\* was listed, its files may later drift within all, with T threads asked for
Listed(trees, all, events, T) ==
    /\ threads \in T
    /\ disk \in trees
    /\ all_files = [i \in DOMAIN disk |-> i]
    /\ log = [i \in DOMAIN disk |-> NoLog]
    /\ lens = all
    /\ listed = disk
    /\ budget = events
    /\ phase = "listed"
    /\ jobs = <<>>
    /\ deque = [w \in 1..threads |-> <<>>]
    /\ wk = [w \in 1..threads |-> IdleWorker]
    /\ all_stats = Default
    /\ report = [files |-> 0, bytes |-> 0]

\* trees of L files for the runs with many entries: all files of 100 bytes,
\* or files of 0, 100, 200, ... bytes
PoolTrees(L) == {[i \in 1..L |-> 100], [i \in 1..L |-> 100 * (i - 1)]}

\* any number of entries and threads, few anomalies
Init ==
    \E L \in 0..MaxFiles : Listed(PoolTrees(L), PoolLens, MaxPoolEvents, 1..MaxThreads)

\* few entries read by one thread, files of any length, more anomalies
InitFile ==
    \E L \in 1..MaxSoloFiles :
        Listed([1..L -> Lens], Lens \cup DriftLens, MaxFileEvents, {1})

\* a file changes size while the benchmark runs
Resize(f, l) ==
    /\ phase # "done"
    /\ budget > 0
    /\ log[f].end = ""
    /\ l \in lens
    /\ l # disk[f]
    /\ disk' = [disk EXCEPT ![f] = l]
    /\ budget' = budget - 1
    /\ UNCHANGED <<threads, all_files, lens, listed, phase, jobs, deque, wk,
                   log, all_stats, report>>

\* main.rs:95-106: build the pool, install the parallel reduction
Install ==
    /\ phase = "listed"
    /\ phase' = "read"
    /\ jobs' = (Root :> Job("injected", threads, Default, FALSE))
    /\ UNCHANGED <<threads, all_files, disk, lens, listed, budget, deque,
                   wk, log, all_stats, report>>

\* where worker w finds its next job: the injected root, else the back of
\* its own deque, else the front of another worker's deque (a steal)
TakeSources(w) ==
    IF jobs[Root].st = "injected"
    THEN {[key |-> Root, migrated |-> FALSE, from |-> 0]}
    ELSE IF deque[w] # <<>>
    THEN {[key |-> deque[w][Len(deque[w])], migrated |-> FALSE, from |-> w]}
    ELSE {[key |-> Head(deque[v]), migrated |-> TRUE, from |-> v] :
             v \in {u \in Workers : u # w /\ deque[u] # <<>>}}

\* an idle worker with an empty deque
Free(w) == wk[w].pc = "idle" /\ deque[w] = <<>>

\* worker w takes a job and runs helper on it down to a leaf.  Free workers
\* are interchangeable: the one that finds the job is the lowest-numbered.
Take(w) ==
    /\ phase = "read"
    /\ wk[w].pc = "idle"
    /\ Free(w) => \A v \in Workers : v < w => ~Free(v)
    /\ \E src \in TakeSources(w) :
        LET k == src.key
            h == helper(k[1], k[2], jobs[k].splits, src.migrated)
            leaf == h.leaf
            empty == leaf[1] >= leaf[2]
            dq0 == IF src.from = 0 THEN deque
                   ELSE IF src.from = w
                   THEN [deque EXCEPT ![w] = SubSeq(@, 1, Len(@) - 1)]
                   ELSE [deque EXCEPT ![src.from] = Tail(@)]
            pushedKeys == [i \in 1..Len(h.pushed) |-> h.pushed[i].key]
            newJobs ==
                [j \in h.joins \cup {leaf} \cup {h.pushed[i].key : i \in 1..Len(h.pushed)} |->
                    IF j \in h.joins THEN Job("join", 0, Default, TRUE)
                    ELSE IF j = leaf
                    THEN Job(IF empty THEN "done" ELSE "run", 0, Default, FALSE)
                    ELSE Job("queued",
                             h.pushed[CHOOSE i \in 1..Len(h.pushed) : h.pushed[i].key = j].splits,
                             Default, FALSE)]
        IN /\ jobs' = newJobs @@ jobs
           /\ deque' = [dq0 EXCEPT ![w] = @ \o pushedKeys]
           /\ wk' = [wk EXCEPT ![w] =
                        IF empty THEN IdleWorker
                        ELSE [IdleWorker EXCEPT !.pc = "open", !.job = leaf,
                                                !.idx = leaf[1]]]
    /\ UNCHANGED <<threads, all_files, disk, lens, listed, budget, phase,
                   log, all_stats, report>>

\* read_file returns st for entry f: the leaf's folder combines it into its
\* accumulator and moves to the next entry, or completes the leaf
FinishFile(w, f, lg, ok, st, e, d) ==
    LET k == wk[w].job
        ret == read_file(ok, st)
        acc2 == combine(wk[w].acc, ret)
        nxt == wk[w].idx + 1
    IN /\ log' = [lg EXCEPT ![f].end = e, ![f].diag = read_file_diag(ok, d),
                            ![f].stats = ret]
       /\ IF nxt < k[2]
          THEN /\ wk' = [wk EXCEPT ![w] = [IdleWorker EXCEPT !.pc = "open",
                                  !.job = k, !.idx = nxt, !.acc = acc2]]
               /\ UNCHANGED jobs
          ELSE /\ wk' = [wk EXCEPT ![w] = IdleWorker]
               /\ jobs' = [jobs EXCEPT ![k] = Job("done", 0, acc2, FALSE)]

CurFile(w) == all_files[wk[w].idx + 1]

\* main.rs:137-162: read_file starts, do_read_file opens the file
Open(w, ok) ==
    /\ wk[w].pc = "open"
    /\ ok \/ budget > 0
    /\ budget' = IF ok THEN budget ELSE budget - 1
    /\ LET f == CurFile(w)
           st == do_open(wk[w].stats, ok)
           lg == [log EXCEPT ![f].by = w, ![f].reads = @ + 1, ![f].opened = ok]
       IN IF ok
          THEN /\ wk' = [wk EXCEPT ![w].pc = "meta", ![w].stats = st]
               /\ log' = lg
               /\ UNCHANGED jobs
          ELSE FinishFile(w, f, lg, FALSE, st, "openfail", "none")
    /\ UNCHANGED <<threads, all_files, disk, lens, listed, phase,
                   deque, all_stats, report>>

\* main.rs:163: entry.metadata()?.size(), a fresh stat of the path
Metadata(w, ok) ==
    /\ wk[w].pc = "meta"
    /\ ok \/ budget > 0
    /\ budget' = IF ok THEN budget ELSE budget - 1
    /\ LET f == CurFile(w)
       IN IF ok
          THEN /\ wk' = [wk EXCEPT ![w].pc = "read", ![w].size = disk[f]]
               /\ log' = [log EXCEPT ![f].size = disk[f]]
               /\ UNCHANGED jobs
          ELSE FinishFile(w, f, log, FALSE, wk[w].stats, "metafail", "none")
    /\ UNCHANGED <<threads, all_files, disk, lens, listed, phase,
                   deque, all_stats, report>>

\* main.rs:167-184: one iteration of the read loop, the read succeeds
ReadChunk(w) ==
    /\ wk[w].pc = "read"
    /\ LET f == CurFile(w)
           size == wk[w].size
       IN \E n \in ReadResults(disk[f], wk[w].stats.bytes, budget > 0) :
            LET st == [wk[w].stats EXCEPT !.bytes = @ + n]
                lg == [log EXCEPT ![f].got = @ + n, ![f].last = n]
                short == n > 0 /\ n < Min(BUF_SIZE, disk[f] - wk[w].stats.bytes)
            IN /\ budget' = IF short THEN budget - 1 ELSE budget
               /\ IF n = 0
                  THEN FinishFile(w, f, lg, TRUE, wk[w].stats, "eof",
                           IF truncated(wk[w].stats.bytes, size) THEN "trunc" ELSE "none")
                  ELSE IF extended(st.bytes, size)
                  THEN FinishFile(w, f, lg, TRUE, st, "ext", "ext")
                  ELSE /\ wk' = [wk EXCEPT ![w].stats = st]
                       /\ log' = lg
                       /\ UNCHANGED jobs
    /\ UNCHANGED <<threads, all_files, disk, lens, listed, phase,
                   deque, all_stats, report>>

\* main.rs:168: f.read(..)? returns an I/O error
ReadError(w) ==
    /\ wk[w].pc = "read"
    /\ budget > 0
    /\ budget' = budget - 1
    /\ FinishFile(w, CurFile(w), log, FALSE, wk[w].stats, "ioerr", "none")
    /\ UNCHANGED <<threads, all_files, disk, lens, listed, phase,
                   deque, all_stats, report>>

\* both halves of a join are done: reducer.reduce(left, right)
Join(k) ==
    /\ phase = "read"
    /\ k \in DOMAIN jobs
    /\ jobs[k].st = "join"
    /\ LET c == Children(k)
       IN /\ c[1] \in DOMAIN jobs /\ c[2] \in DOMAIN jobs
          /\ jobs[c[1]].st = "done" /\ jobs[c[2]].st = "done"
          /\ jobs' = [jobs EXCEPT ![k] =
                         Job("done", 0, combine(jobs[c[1]].res, jobs[c[2]].res), TRUE)]
    /\ UNCHANGED <<threads, all_files, disk, lens, listed, budget, phase,
                   deque, wk, log, all_stats, report>>

\* main.rs:107-118: the reduction is complete, print the read line
Report ==
    /\ phase = "read"
    /\ jobs[Root].st = "done"
    /\ all_stats' = jobs[Root].res
    /\ report' = [files |-> Len(all_files), bytes |-> jobs[Root].res.bytes]
    /\ phase' = "done"
    /\ UNCHANGED <<threads, all_files, disk, lens, listed, budget, jobs,
                   deque, wk, log>>

Next ==
    \/ Install
    \/ \E f \in Entries, l \in Lens \cup DriftLens : Resize(f, l)
    \/ \E w \in Workers : Take(w)
    \/ \E w \in Workers, ok \in BOOLEAN : Open(w, ok)
    \/ \E w \in Workers, ok \in BOOLEAN : Metadata(w, ok)
    \/ \E w \in Workers : ReadChunk(w)
    \/ \E w \in Workers : ReadError(w)
    \/ \E k \in DOMAIN jobs : Join(k)
    \/ Report

Spec == Init /\ [][Next]_vars

SpecFile == InitFile /\ [][Next]_vars

\* ---- history helpers used by the properties ----
Finished(f) == log[f].end # ""

RECURSIVE SumBytes(_, _)
SumBytes(lo, hi) ==
    IF lo >= hi THEN 0 ELSE log[hi].stats.bytes + SumBytes(lo, hi - 1)

RECURSIVE SumCount(_, _)
SumCount(lo, hi) ==
    IF lo >= hi THEN 0 ELSE log[hi].stats.file_count + SumCount(lo, hi - 1)

\* sum of the per-entry stats of the entries of range <<lo, hi>>
RangeSum(k) == [bytes |-> SumBytes(k[1], k[2]), file_count |-> SumCount(k[1], k[2])]

\* the chunk sizes of the fixed floor(L/T) policy
PolicySizes(L, T) ==
    IF L = 0 THEN <<>>
    ELSE IF L < T THEN <<L>>
    ELSE [i \in 1..T |-> IF i < T THEN L \div T ELSE (L \div T) + (L % T)]

\* the sets of entries of consecutive chunks of the given sizes
RECURSIVE PolicySetsFrom(_, _)
PolicySetsFrom(sizes, start) ==
    IF sizes = <<>> THEN {}
    ELSE {(start + 1)..(start + Head(sizes))}
            \cup PolicySetsFrom(Tail(sizes), start + Head(sizes))

\* C1: once the running total of a file exceeds the expected size the read
\* loop stops at once: no worker is at the head of the loop with a total above
\* the size, a file whose total exceeds the size is finished in that very
\* step, only the last read crossed the size, the bytes read are kept and the
\* file counts as one file read.
C1_StopOnExtension ==
    /\ \A w \in Workers : wk[w].pc = "read" => wk[w].stats.bytes <= wk[w].size
    /\ \A f \in Entries :
        /\ (log[f].size >= 0 /\ log[f].got > log[f].size) => log[f].end = "ext"
        /\ log[f].end = "ext" =>
            /\ log[f].stats = [bytes |-> log[f].got, file_count |-> 1]
            /\ log[f].got - log[f].last <= log[f].size
            /\ log[f].diag = "ext"

\* a file that grew while it was read: an earlier read stayed within the size,
\* the next one crossed it
C1_Witness ==
    \E f \in Entries :
        /\ log[f].end = "ext"
        /\ log[f].last < log[f].got
        /\ disk[f] > log[f].size
        /\ log[f].stats.bytes > log[f].size

\* C2: at end of stream with fewer bytes than the expected size the truncation
\* diagnostic is emitted, exactly the bytes read are kept, the file counts as
\* one file read; with the total equal to the size there is no diagnostic.
C2_Truncation ==
    \A f \in Entries : log[f].end = "eof" =>
        /\ log[f].stats = [bytes |-> log[f].got, file_count |-> 1]
        /\ log[f].got <= log[f].size
        /\ (log[f].got < log[f].size => log[f].diag = "trunc")
        /\ (log[f].got = log[f].size => log[f].diag = "none")

C2_Witness ==
    \E f \in Entries :
        /\ log[f].end = "eof"
        /\ log[f].size = 1000
        /\ log[f].stats = [bytes |-> 500, file_count |-> 1]
        /\ log[f].diag = "trunc"

\* C3: an entry whose open fails contributes file_count 0 and bytes 0, the
\* failure is only logged, and the other entries are still read: the reduced
\* file count is the number of entries that were opened.
C3_OpenFailure ==
    /\ \A f \in Entries : log[f].end = "openfail" =>
          log[f].stats = Default /\ log[f].diag = "err"
    /\ phase = "done" =>
        /\ \A f \in Entries : Finished(f)
        /\ all_stats.file_count = Cardinality({f \in Entries : log[f].opened})

\* one unreadable file and two readable 100-byte files: 2 files, 200 bytes
C3_Witness ==
    /\ phase = "done"
    /\ Len(all_files) = 3
    /\ Cardinality({f \in Entries : log[f].end = "openfail"}) = 1
    /\ Cardinality({f \in Entries : log[f].end = "eof" /\ log[f].got = 100}) = 2
    /\ all_stats = [bytes |-> 200, file_count |-> 2]

\* C4: a read error in the middle of a file ends that file only: the bytes
\* read before the error are returned by read_file, the file counts as one
\* file read, and the reduction completes with those bytes in the total.
C4_ReadError ==
    /\ \A f \in Entries : log[f].end = "ioerr" =>
          /\ log[f].stats = [bytes |-> log[f].got, file_count |-> 1]
          /\ log[f].diag = "err"
    /\ (phase = "done" /\ \E f \in Entries : log[f].end = "ioerr") =>
          all_stats.bytes = SumBytes(0, Len(all_files))

C4_Witness ==
    /\ phase = "done"
    /\ \E f \in Entries :
        /\ log[f].end = "ioerr"
        /\ log[f].got > 0
        /\ log[f].stats.bytes = log[f].got
        /\ all_stats.bytes >= log[f].got

\* C5: every listed entry is read exactly once, by one worker: never twice,
\* never by two workers at a time, and none is left unread when the
\* reduction is complete.
C5_ExactlyOnce ==
    /\ \A f \in Entries : log[f].reads <= 1
    /\ \A v, w \in Workers :
          (v # w /\ wk[v].pc # "idle" /\ wk[w].pc # "idle") => wk[v].idx # wk[w].idx
    /\ phase = "done" =>
          \A f \in Entries : log[f].reads = 1 /\ Finished(f) /\ log[f].by \in Workers

C5_Witness ==
    /\ phase = "done"
    /\ Len(all_files) >= 3
    /\ \E f, g \in Entries : log[f].by # log[g].by
    /\ \A f \in Entries : log[f].reads = 1

\* C6: the reduced total is the sum of the per-entry stats whatever the order
\* in which the workers complete, every completed job holds the sum of its
\* range, and combine is commutative and associative with the default as
\* identity on the stats that occur.
C6_Reduction ==
    LET Seen == {Default} \cup {log[f].stats : f \in Entries}
                    \cup {jobs[k].res : k \in DOMAIN jobs}
    IN /\ \A k \in DOMAIN jobs : jobs[k].st = "done" => jobs[k].res = RangeSum(k)
       /\ phase = "done" =>
            /\ all_stats = RangeSum(Root)
            /\ \A a, b \in Seen :
                /\ combine(a, b) = combine(b, a)
                /\ combine(a, Default) = a
                /\ \A c \in Seen :
                      combine(combine(a, b), c) = combine(a, combine(b, c))

C6_Witness ==
    /\ phase = "done"
    /\ \E f, g \in Entries : log[f].by # log[g].by
    /\ all_stats.file_count >= 2
    /\ all_stats.bytes > 0
    /\ \E f \in Entries : log[f].stats.file_count = 0

\* C7: the expected size the read loop compares against is the size the file
\* had when it was listed, so a file that shrank between the listing and the
\* read is reported as truncated.
C7_ListingSize ==
    \A f \in Entries :
        /\ log[f].size >= 0 => log[f].size = listed[f]
        /\ (log[f].end = "eof" /\ log[f].got < listed[f]) => log[f].diag = "trunc"

\* C8: the file count of the read report is the reduced file_count, the
\* number of files that were opened.
C8_ReportCount ==
    phase = "done" => report.files = all_stats.file_count

\* C9 (as stated): a file of 2000 bytes with expected size 1000 is not read in
\* full: fewer than 2000 bytes are accumulated.
C9_NotDrained ==
    \A f \in Entries :
        (log[f].end = "ext" /\ log[f].size = 1000 /\ disk[f] = 2000) =>
            log[f].stats.bytes < 2000

\* C9 (amended): reading stops with the read that crosses the expected size:
\* the total never exceeds the size by more than one buffer, and a file
\* stopped for extension has more than the size, at most size + BUF_SIZE
\* bytes, the extension diagnostic and counts as one file read.
C9_BoundedOverrun ==
    /\ \A w \in Workers :
          wk[w].pc = "read" => wk[w].stats.bytes <= wk[w].size + BUF_SIZE
    /\ \A f \in Entries :
        /\ log[f].size >= 0 => log[f].got <= log[f].size + BUF_SIZE
        /\ log[f].end = "ext" =>
            /\ log[f].stats.bytes > log[f].size
            /\ log[f].stats.bytes <= log[f].size + BUF_SIZE
            /\ log[f].stats.file_count = 1
            /\ log[f].diag = "ext"

\* expected size 1000, 2000 bytes on disk: all 2000 bytes are read
C9_Witness ==
    \E f \in Entries :
        /\ log[f].end = "ext"
        /\ log[f].size = 1000
        /\ disk[f] = 2000
        /\ log[f].stats = [bytes |-> 2000, file_count |-> 1]

\* C10: the entries are split in fixed chunks of floor(L/T)
\* entries, the last taking the remainder, a single chunk when L < T, one
\* chunk per worker: the sets of entries the workers have read are exactly
\* those chunks.
C10_FixedChunks ==
    phase = "done" =>
        {{f \in Entries : log[f].by = w} : w \in Workers} \ {{}}
            = PolicySetsFrom(PolicySizes(Len(all_files), threads), 0)

====
